---- MODULE Spec2Model ----
(***************************************************************************)
(* Model of src/rust/src/types.rs of strict_encoding: canonical type name  *)
(* derivation (StrictType::strict_name), member validation                 *)
(* (strict_check_fields / strict_check_variants), variant lookup           *)
(* (StrictSum::variant_ord) and construction of the introspection record   *)
(* (strict_type_info) for the Tuple, Struct, Union and Enum capabilities.  *)
(*                                                                         *)
(* Strings that the code takes apart (type names) are sequences of         *)
(* one-character strings; member names are opaque strings, as the code     *)
(* only compares them.                                                     *)
(***************************************************************************)
EXTENDS Integers, Sequences, FiniteSets, TLC

VARIABLES kind, members, ty, self, op, arg, res, infoOk

vars == <<kind, members, ty, self, op, arg, res, infoOk>>

(***************************************************************************)
(* Bounds                                                                  *)
(***************************************************************************)
\* largest ordinal used in a declaration (u8 in the code)
MaxOrd == 1
\* longest member declaration
MaxLen == 3
\* most generic arguments of a type
MaxArgs == 2

Ords == 0..MaxOrd
Names == {"Red", "Green"}

(***************************************************************************)
(* Results of an operation: a returned value, a panic (assert!, expect,    *)
(* unreachable!, slice index) or a recoverable Err.                        *)
(***************************************************************************)
Ok(v) == [st |-> "ok", val |-> v]
Panic(ctx, name, defect) == [st |-> "panic", val |-> [ctx |-> ctx, name |-> name, defect |-> defect]]
Err(e) == [st |-> "err", val |-> e]

VariantError(name, v) == [type |-> name, value |-> v]

(***************************************************************************)
(* str primitives used by strict_name                                      *)
(***************************************************************************)
Matches(s, pat, i) == i + Len(pat) - 1 <= Len(s) /\ SubSeq(s, i, i + Len(pat) - 1) = pat

Occurrences(s, pat) == {i \in 1..Len(s) : Matches(s, pat, i)}

SetMin(S) == CHOOSE x \in S : \A y \in S : x <= y
SetMax(S) == CHOOSE x \in S : \A y \in S : x >= y

\* str::split_once: None, or the parts around the first occurrence of pat
split_once(s, pat) ==
    IF Occurrences(s, pat) = {} THEN [some |-> FALSE, head |-> <<>>, tail |-> <<>>]
    ELSE LET i == SetMin(Occurrences(s, pat))
         IN [some |-> TRUE, head |-> SubSeq(s, 1, i - 1), tail |-> SubSeq(s, i + Len(pat), Len(s))]

\* str::rsplit_once: None, or the parts around the last occurrence of pat
rsplit_once(s, pat) ==
    IF Occurrences(s, pat) = {} THEN [some |-> FALSE, head |-> <<>>, tail |-> <<>>]
    ELSE LET i == SetMax(Occurrences(s, pat))
         IN [some |-> TRUE, head |-> SubSeq(s, 1, i - 1), tail |-> SubSeq(s, i + Len(pat), Len(s))]

\* str::trim_end_matches(c): drops every trailing c
RECURSIVE trim_end_matches(_, _)
trim_end_matches(s, c) ==
    IF Len(s) > 0 /\ s[Len(s)] = c THEN trim_end_matches(SubSeq(s, 1, Len(s) - 1), c) ELSE s

\* str::split(c): the pieces between the occurrences of c; one piece (the
\* whole string, possibly empty) when c does not occur
RECURSIVE split(_, _)
split(s, c) ==
    LET p == split_once(s, <<c>>)
    IN IF p.some THEN <<p.head>> \o split(p.tail, c) ELSE <<s>>

\* fn get_ident(path) = path.rsplit_once("::").map(|(_, n)| n).unwrap_or(path)
get_ident(path) ==
    LET p == rsplit_once(path, <<":", ":">>)
    IN IF p.some THEN p.tail ELSE path

\* the for loop of strict_name: ident.push('_'); ident.extend(get_ident(arg))
RECURSIVE push_args(_, _)
push_args(ident, args) ==
    IF args = <<>> THEN ident
    ELSE push_args(ident \o <<"_">> \o get_ident(Head(args)), Tail(args))

\* StrictType::strict_name applied to the string any::type_name returns
strict_name(name) ==
    LET p == split_once(name, <<"<">>)
        base == IF p.some THEN p.head ELSE name
        generics0 == IF p.some THEN p.tail ELSE <<>>
        generics == trim_end_matches(generics0, ">")
    IN push_args(get_ident(base), split(generics, ","))

\* Self::strict_name().unwrap_or_else(|| s!("<unnamed>")): strict_name is
\* always Some
checked_name(name) == strict_name(name)

(***************************************************************************)
(* Types and the string any::type_name::<Self>() gives for them: the       *)
(* module path, the identifier and, for a generic type, the arguments      *)
(* between angle brackets separated by ", ".  Primitive types (u8) have    *)
(* no path.                                                                *)
(***************************************************************************)
Plain(path, id) == [path |-> path, id |-> id, args |-> <<>>]
Generic(base, args) == [path |-> base.path, id |-> base.id, args |-> args]

RECURSIVE type_name(_)
RECURSIVE type_names(_)
type_name(t) ==
    t.path \o t.id \o
    (IF t.args = <<>> THEN <<>> ELSE <<"<">> \o type_names(t.args) \o <<">">>)
type_names(ts) ==
    IF Len(ts) = 1 THEN type_name(ts[1])
    ELSE type_name(ts[1]) \o <<",", " ">> \o type_names(Tail(ts))

PlainTypes ==
    { Plain(<<>>, <<"u", "8">>),
      Plain(<<"m", ":", ":">>, <<"I">>),
      Plain(<<"m", ":", ":", "n", ":", ":">>, <<"J">>) }
BaseTypes == { Plain(<<"m", ":", ":">>, <<"W">>) }

ArgSeqs(S, n) == UNION {[1..k -> S] : k \in 1..n}
\* generic types with plain arguments
Generic1 == {Generic(b, a) : b \in BaseTypes, a \in ArgSeqs(PlainTypes, MaxArgs)}
\* generic types whose first argument is itself generic
Generic2 ==
    {Generic(b, <<t>> \o a) : b \in BaseTypes, t \in Generic1,
                              a \in {<<>>} \cup ArgSeqs(PlainTypes, MaxArgs - 1)}
AllTypes == PlainTypes \cup Generic1 \cup Generic2
ColorType == Plain(<<"m", ":", ":">>, <<"I">>)

(***************************************************************************)
(* Member declarations: ALL_FIELDS of a Tuple is a sequence of ordinals,   *)
(* ALL_FIELDS of a Struct and ALL_VARIANTS of a Sum are sequences of       *)
(* (ordinal, name) pairs.                                                  *)
(***************************************************************************)
Member(o, n) == [ord |-> o, name |-> n]
Pairs == {Member(o, n) : o \in Ords, n \in Names}
SeqsUpTo(S, n) == UNION {[1..k -> S] : k \in 0..n}

\* (ords, names): (BTreeSet<_>, BTreeSet<_>) = ALL.iter().copied().unzip()
unzip_ords(all) == {all[i].ord : i \in DOMAIN all}
unzip_names(all) == {all[i].name : i \in DOMAIN all}
\* set.extend(Self::ALL_FIELDS)
tuple_set(all) == {all[i] : i \in DOMAIN all}

\* StrictTuple::strict_check_fields without the BTreeSet comparison
StrictTuple_strict_check_fields_noids(all, t) ==
    LET name == checked_name(type_name(t))
    IN IF Len(all) = 0 THEN Panic("tuple type", name, "does not contain a single field defined")
       ELSE Ok("unit")

StrictTuple_strict_check_fields(all, t) ==
    LET name == checked_name(type_name(t))
    IN IF Len(all) = 0 THEN Panic("tuple type", name, "does not contain a single field defined")
       ELSE IF Cardinality(tuple_set(all)) # Len(all)
            THEN Panic("tuple type", name, "contains repeated field ids")
       ELSE Ok("unit")

\* StrictStruct::strict_check_fields without the assertion on names
StrictStruct_strict_check_fields_nonames(all, t) ==
    LET name == checked_name(type_name(t))
    IN IF Len(all) = 0 THEN Panic("struct type", name, "does not contain a single field defined")
       ELSE IF Cardinality(unzip_ords(all)) # Len(all)
            THEN Panic("struct type", name, "contains repeated field ids")
       ELSE Ok("unit")

StrictStruct_strict_check_fields(all, t) ==
    LET name == checked_name(type_name(t))
    IN IF Len(all) = 0 THEN Panic("struct type", name, "does not contain a single field defined")
       ELSE IF Cardinality(unzip_ords(all)) # Len(all)
            THEN Panic("struct type", name, "contains repeated field ids")
       ELSE IF Cardinality(unzip_names(all)) # Len(all)
            THEN Panic("struct type", name, "contains repeated field names")
       ELSE Ok("unit")

\* StrictSum::strict_check_variants without the is_empty assertion
StrictSum_strict_check_variants_noempty(all, t) ==
    LET name == checked_name(type_name(t))
    IN IF Cardinality(unzip_ords(all)) # Len(all)
            THEN Panic("type", name, "contains repeated variant ids")
       ELSE IF Cardinality(unzip_names(all)) # Len(all)
            THEN Panic("type", name, "contains repeated variant names")
       ELSE Ok("unit")

StrictSum_strict_check_variants(all, t) ==
    LET name == checked_name(type_name(t))
    IN IF Len(all) = 0 THEN Panic("type", name, "does not contain a single variant defined")
       ELSE IF Cardinality(unzip_ords(all)) # Len(all)
            THEN Panic("type", name, "contains repeated variant ids")
       ELSE IF Cardinality(unzip_names(all)) # Len(all)
            THEN Panic("type", name, "contains repeated variant names")
       ELSE Ok("unit")

(***************************************************************************)
(* Instances of a Sum type.  variant_name is the host's accessor; an       *)
(* instance made by try_from remembers the ordinal it was made from.       *)
(***************************************************************************)
HostInstance(n) == [name |-> n, from |-> <<>>]
variant_name(inst) == inst.name

\* variant_ord falling back to ordinal 0 instead of unreachable!
variant_ord_fallback(all, inst, t) ==
    LET variant == variant_name(inst)
        hits == {i \in DOMAIN all : all[i].name = variant}
    IN IF hits # {} THEN Ok(all[SetMin(hits)].ord) ELSE Ok(0)

\* variant_ord returning the position in the table instead of the ordinal
variant_ord_position(all, inst, t) ==
    LET variant == variant_name(inst)
        hits == {i \in DOMAIN all : all[i].name = variant}
    IN IF hits # {} THEN Ok(SetMin(hits) - 1)
       ELSE Panic("unreachable", type_name(t), "not all variants are enumerated")

\* StrictSum::variant_ord: the ordinal of the first entry whose name is the
\* instance's variant name; unreachable! when the loop ends
variant_ord(all, inst, t) ==
    LET variant == variant_name(inst)
        hits == {i \in DOMAIN all : all[i].name = variant}
    IN IF hits # {} THEN Ok(all[SetMin(hits)].ord)
       ELSE Panic("unreachable", type_name(t), "not all variants are enumerated")

\* TryFrom<u8, Error = VariantError<u8>> of an Enum (implemented by the host
\* type): the variant of a declared ordinal, VariantError otherwise.  The
\* instance reports the name declared with that ordinal.
try_from(all, t, o) ==
    LET hits == {i \in DOMAIN all : all[i].ord = o}
    IN IF hits # {} THEN Ok([name |-> all[SetMin(hits)].name, from |-> <<o>>])
       ELSE Err(VariantError(strict_name(type_name(t)), o))

\* StrictDumb::strict_dumb of a Tuple, Struct or Union (host supplied)
strict_dumb(t) == [dumb |-> type_name(t)]

STRICT_LIB_NAME == "StrictLib"

TypeInfo(t, cls, dumb) ==
    [lib |-> STRICT_LIB_NAME, name |-> strict_name(type_name(t)), cls |-> cls, dumb |-> dumb]
TypeClass(c, all) == [class |-> c, members |-> all]

StrictTuple_strict_type_info(all, t) ==
    LET chk == StrictTuple_strict_check_fields(all, t)
    IN IF chk.st = "panic" THEN chk
       ELSE Ok(TypeInfo(t, TypeClass("Tuple", all), strict_dumb(t)))

StrictStruct_strict_type_info(all, t) ==
    LET chk == StrictStruct_strict_check_fields(all, t)
    IN IF chk.st = "panic" THEN chk
       ELSE Ok(TypeInfo(t, TypeClass("Struct", all), strict_dumb(t)))

\* StrictUnion::strict_type_info building TypeClass::Enum
StrictUnion_strict_type_info_enumcls(all, t) ==
    LET chk == StrictSum_strict_check_variants(all, t)
    IN IF chk.st = "panic" THEN chk
       ELSE Ok(TypeInfo(t, TypeClass("Enum", all), strict_dumb(t)))

StrictUnion_strict_type_info(all, t) ==
    LET chk == StrictSum_strict_check_variants(all, t)
    IN IF chk.st = "panic" THEN chk
       ELSE Ok(TypeInfo(t, TypeClass("Union", all), strict_dumb(t)))

\* StrictEnum::strict_type_info taking the placeholder from the lowest ordinal
StrictEnum_strict_type_info_lowest(all, t) ==
    LET chk == StrictSum_strict_check_variants(all, t)
    IN IF chk.st = "panic" THEN chk
       ELSE IF Len(all) = 0 THEN Panic("index", type_name(t), "index out of bounds")
       ELSE LET d == try_from(all, t, SetMin(unzip_ords(all)))
            IN IF d.st # "ok" THEN Panic("expect", type_name(t), "first variant contains invalid value")
               ELSE Ok(TypeInfo(t, TypeClass("Enum", all), d.val))

\* StrictEnum::strict_type_info: the check, then ALL_VARIANTS[0].0 (a slice
\* index, which panics on an empty slice), then try_from(..).expect(..)
StrictEnum_strict_type_info(all, t) ==
    LET chk == StrictSum_strict_check_variants(all, t)
    IN IF chk.st = "panic" THEN chk
       ELSE IF Len(all) = 0 THEN Panic("index", type_name(t), "index out of bounds")
       ELSE LET d == try_from(all, t, all[1].ord)
            IN IF d.st # "ok" THEN Panic("expect", type_name(t), "first variant contains invalid value")
               ELSE Ok(TypeInfo(t, TypeClass("Enum", all), d.val))

(***************************************************************************)
(* The state machine: a type (its capability, member declaration and       *)
(* name), one instance of it, and the last operation called with its       *)
(* outcome.  infoOk records that strict_type_info has returned a record.   *)
(***************************************************************************)
Kinds == {"Tuple", "Struct", "Union", "Enum"}
SumKinds == {"Union", "Enum"}

Declarations(k) ==
    IF k = "Tuple" THEN SeqsUpTo(Ords, MaxLen) ELSE SeqsUpTo(Pairs, MaxLen)

Instances(k) ==
    IF k \in SumKinds THEN {HostInstance(n) : n \in Names} ELSE {HostInstance("Red")}

Fresh ==
    /\ op = "new"
    /\ arg = <<>>
    /\ res = Ok("unit")
    /\ infoOk = FALSE

Init ==
    /\ kind \in Kinds
    /\ members \in Declarations(kind)
    /\ ty = ColorType
    /\ self \in Instances(kind)
    /\ Fresh

\* every type name, each with one well-formed declaration
NameInit ==
    /\ kind \in Kinds
    /\ members = IF kind = "Tuple" THEN <<0, 1>> ELSE <<Member(0, "Red"), Member(1, "Green")>>
    /\ ty \in AllTypes
    /\ self = HostInstance("Red")
    /\ Fresh

Called(o, a, r) ==
    /\ op' = o
    /\ arg' = a
    /\ res' = r
    /\ UNCHANGED <<kind, members, ty>>

TupleCheck ==
    /\ kind = "Tuple"
    /\ Called("strict_check", <<>>, StrictTuple_strict_check_fields(members, ty))
    /\ UNCHANGED <<self, infoOk>>

StructCheck ==
    /\ kind = "Struct"
    /\ Called("strict_check", <<>>, StrictStruct_strict_check_fields(members, ty))
    /\ UNCHANGED <<self, infoOk>>

SumCheck ==
    /\ kind \in SumKinds
    /\ Called("strict_check", <<>>, StrictSum_strict_check_variants(members, ty))
    /\ UNCHANGED <<self, infoOk>>

TupleInfo ==
    /\ kind = "Tuple"
    /\ Called("strict_type_info", <<>>, StrictTuple_strict_type_info(members, ty))
    /\ infoOk' = (infoOk \/ res'.st = "ok")
    /\ UNCHANGED self

StructInfo ==
    /\ kind = "Struct"
    /\ Called("strict_type_info", <<>>, StrictStruct_strict_type_info(members, ty))
    /\ infoOk' = (infoOk \/ res'.st = "ok")
    /\ UNCHANGED self

UnionInfo ==
    /\ kind = "Union"
    /\ Called("strict_type_info", <<>>, StrictUnion_strict_type_info(members, ty))
    /\ infoOk' = (infoOk \/ res'.st = "ok")
    /\ UNCHANGED self

EnumInfo ==
    /\ kind = "Enum"
    /\ Called("strict_type_info", <<>>, StrictEnum_strict_type_info(members, ty))
    /\ infoOk' = (infoOk \/ res'.st = "ok")
    /\ UNCHANGED self

VariantOrd ==
    /\ kind \in SumKinds
    /\ Called("variant_ord", <<>>, variant_ord(members, self, ty))
    /\ UNCHANGED <<self, infoOk>>

TryFrom ==
    /\ kind = "Enum"
    /\ \E o \in Ords :
         /\ Called("try_from", <<o>>, try_from(members, ty, o))
         /\ self' = IF res'.st = "ok" THEN res'.val ELSE self
    /\ UNCHANGED infoOk

StrictName ==
    /\ Called("strict_name", <<>>, Ok(strict_name(type_name(ty))))
    /\ UNCHANGED <<self, infoOk>>

Next ==
    \/ TupleCheck
    \/ StructCheck
    \/ SumCheck
    \/ TupleInfo
    \/ StructInfo
    \/ UnionInfo
    \/ EnumInfo
    \/ VariantOrd
    \/ TryFrom
    \/ StrictName

Spec == Init /\ [][Next]_vars

NameSpec == NameInit /\ [][Next]_vars

(***************************************************************************)
(* Vocabulary of the properties, stated on the declaration itself          *)
(***************************************************************************)
OrdAt(i) == IF kind = "Tuple" THEN members[i] ELSE members[i].ord
RepeatedOrd == \E i, j \in DOMAIN members : i # j /\ OrdAt(i) = OrdAt(j)
RepeatedName ==
    /\ kind # "Tuple"
    /\ \E i, j \in DOMAIN members : i # j /\ members[i].name = members[j].name
Empty == Len(members) = 0
WellFormed == ~Empty /\ ~RepeatedOrd /\ ~RepeatedName
Validating == op \in {"strict_check", "strict_type_info"}

EmptyDefects == {"does not contain a single field defined", "does not contain a single variant defined"}
IdDefects == {"contains repeated field ids", "contains repeated variant ids"}
NameDefects == {"contains repeated field names", "contains repeated variant names"}
Reports(defects) == res.st = "panic" /\ res.val.defect \in defects

RECURSIVE Reverse(_)
Reverse(s) == IF s = <<>> THEN <<>> ELSE Reverse(Tail(s)) \o <<Head(s)>>

\* C1: a non-empty declaration with pairwise distinct ordinals and names
\* passes validation, and strict_type_info returns a record whose class is
\* the capability's variant carrying the declared member sequence unchanged.
C1_WellFormedIntrospects ==
    WellFormed =>
        /\ op = "strict_check" => res.st = "ok"
        /\ op = "strict_type_info" =>
             /\ res.st = "ok"
             /\ res.val.cls = [class |-> kind, members |-> members]

C1_Witness ==
    /\ WellFormed
    /\ Len(members) >= 2
    /\ kind = "Union"
    /\ op = "strict_type_info"
    /\ members[1].ord > members[2].ord

\* C2 as stated: a declaration of a Struct or Sum in which a name repeats
\* makes validation report the duplicate-name defect, whatever the ordinals.
C2_NameDefectAlwaysReported ==
    (kind # "Tuple" /\ RepeatedName /\ op = "strict_check") => Reports(NameDefects)

\* C2 amended: a declaration of a Struct or Sum in which a name repeats makes
\* validation fail; the failure reports the duplicate-name defect when the
\* ordinals are pairwise distinct and the duplicate-id defect alone when an
\* ordinal repeats too, since the ordinal assertion comes first.
C2_NameDefectAfterIdCheck ==
    (kind # "Tuple" /\ RepeatedName /\ op = "strict_check") =>
        IF RepeatedOrd THEN Reports(IdDefects) ELSE Reports(NameDefects)

C2_Witness ==
    /\ kind = "Struct"
    /\ RepeatedName
    /\ ~RepeatedOrd
    /\ op = "strict_check"
    /\ Reports(NameDefects)

\* C3: for a non-generic type strict_name is the unqualified identifier.
C3_PlainNameIsIdentifier ==
    (op = "strict_name" /\ ty.args = <<>>) => res.val = ty.id

\* the name the claim C4 gives a generic type with non-generic arguments
RECURSIVE ArgIdents(_)
ArgIdents(args) ==
    IF args = <<>> THEN <<>> ELSE <<"_">> \o Head(args).id \o ArgIdents(Tail(args))
Chars(s) == {s[i] : i \in DOMAIN s}

\* C4: for a generic type strict_name is the unqualified base followed by
\* '_' and the unqualified identifier of each argument in order, and has no
\* namespace separator, space or angle bracket.
C4_GenericNameJoinsIdentifiers ==
    (op = "strict_name" /\ ty.args # <<>>) =>
        /\ Chars(res.val) \cap {":", " ", "<", ">"} = {}
        /\ ty \in Generic1 => res.val = ty.id \o ArgIdents(ty.args)

\* C5 as stated: the placeholder of an Enum's record is the instance
\* reconstructed from the lowest declared ordinal.
C5_DumbIsLowestOrdinal ==
    (kind = "Enum" /\ op = "strict_type_info" /\ res.st = "ok") =>
        res.val.dumb.from = <<SetMin({members[i].ord : i \in DOMAIN members})>>

\* C5 amended: the placeholder of an Enum's record is the instance
\* reconstructed from the ordinal of the first declared variant.
C5_DumbIsFirstVariant ==
    (kind = "Enum" /\ op = "strict_type_info" /\ res.st = "ok") =>
        /\ res.val.dumb.from = <<members[1].ord>>
        /\ res.val.dumb.name = members[1].name

C5_Witness ==
    /\ kind = "Enum"
    /\ op = "strict_type_info"
    /\ res.st = "ok"
    /\ \E i \in DOMAIN members : members[i].ord < members[1].ord

\* C6: the first operation that consults a defective declaration (empty,
\* repeated ordinal, repeated name) aborts; variant_ord returns no ordinal
\* for such a declaration.
C6_FirstUseDetectsDefect ==
    (op = "variant_ord" /\ (Empty \/ RepeatedOrd \/ RepeatedName)) => res.st = "panic"

\* C7: once strict_type_info has returned a record for an Enum, try_from of
\* a declared ordinal succeeds and variant_ord of the instance gives that
\* ordinal back; try_from of an undeclared ordinal is the VariantError
\* result with the type name and the value, not a panic.
C7_OrdinalRoundTrip ==
    (kind = "Enum" /\ infoOk) =>
        /\ (op = "variant_ord" /\ self.from # <<>>) => (res.st = "ok" /\ <<res.val>> = self.from)
        /\ op = "try_from" =>
             IF \E i \in DOMAIN members : members[i].ord = arg[1]
             THEN res.st = "ok" /\ res.val.from = arg
             ELSE res.st = "err" /\ res.val = VariantError(strict_name(type_name(ty)), arg[1])

C7_Witness ==
    /\ kind = "Enum"
    /\ infoOk
    /\ op = "variant_ord"
    /\ self.from # <<>>
    /\ self.from[1] > 0
    /\ Len(members) >= 2

\* C8: a declaration in which an ordinal repeats makes validation and
\* strict_type_info abort with the duplicate-id defect.
C8_RepeatedOrdinalAborts ==
    (RepeatedOrd /\ Validating) =>
        /\ Reports(IdDefects)
        /\ res.val.ctx = (CASE kind = "Tuple" -> "tuple type"
                            [] kind = "Struct" -> "struct type"
                            [] OTHER -> "type")

C8_Witness ==
    /\ kind = "Tuple"
    /\ RepeatedOrd
    /\ op = "strict_type_info"
    /\ res.st = "panic"

\* C9: an empty declaration makes validation and strict_type_info abort with
\* the empty-type defect; the Enum's strict_type_info does not get as far as
\* indexing ALL_VARIANTS[0].
C9_EmptyDeclarationAborts ==
    (Empty /\ Validating) => Reports(EmptyDefects)

C9_Witness ==
    /\ kind = "Enum"
    /\ Empty
    /\ op = "strict_type_info"
    /\ res.st = "panic"

\* C10: variant_ord returns an ordinal declared with the instance's variant
\* name; for a well-formed declaration it is the only such ordinal and the
\* order of the table does not matter; when no entry has the name it panics.
C10_VariantOrdFollowsTable ==
    op = "variant_ord" =>
        LET n == variant_name(self)
            hits == {i \in DOMAIN members : members[i].name = n}
        IN /\ hits # {} =>
                /\ res.st = "ok"
                /\ \E i \in hits : members[i].ord = res.val
           /\ (hits # {} /\ WellFormed) =>
                /\ \A i \in hits : members[i].ord = res.val
                /\ variant_ord(Reverse(members), self, ty) = res
           /\ hits = {} => (res.st = "panic" /\ res.val.ctx = "unreachable")

C10_Witness ==
    /\ op = "variant_ord"
    /\ WellFormed
    /\ Len(members) >= 2
    /\ res.st = "ok"
    /\ members[2].name = variant_name(self)

C10_WitnessMissing ==
    /\ op = "variant_ord"
    /\ ~Empty
    /\ res.st = "panic"

====
